---- MODULE Spec2Model ----
(***************************************************************************)
(* PPE compliance monitor (hiluey/vision-safe-guard).                      *)
(*                                                                         *)
(* The model covers the detection-aggregation pipeline of the EPIDetector  *)
(* component (processDetections, filterDuplicatePersons, the upload reset),*)
(* the derived statistics of ComplianceRatesCard and AlertDashboard, and   *)
(* the live-session controller RealtimeDetector.                           *)
(*                                                                         *)
(* Numbers: scores are hundredths (0.5 is 50), rates are tenths of a       *)
(* percent (the text toFixed(1) prints, 66.7 is 667), boxes are integer    *)
(* pixel coordinates.                                                      *)
(***************************************************************************)
EXTENDS Integers, Sequences, FiniteSets, TLC

VARIABLES
    impl,           \* which copy of processDetections is running
    detections,     \* useState<Detection[]>
    alerts,         \* useState<Alert[]>
    videoFile,      \* useState<File | null>, TRUE when a file is set
    currentFrame,   \* useState(0)
    analysisProgress, \* useState(0)
    now,            \* Date.now() as the next reading returns it
    call,           \* arguments of the most recent processDetections call
    nCalls,         \* number of processDetections calls made so far
    lastEvent,      \* name of the handler that ran last
    mounted,        \* RealtimeDetector is mounted (videoRef.current set)
    camPending,     \* getUserMedia promise of startCamera is unsettled
    srcObject,      \* videoRef.current.srcObject holds the stream
    tracksLive,     \* the MediaStream's tracks have not been stopped
    isCameraOn,     \* useState(false)
    isRealtime,     \* useState(false)
    timers,         \* intervals created by setInterval and not cleared
    intervalRef,    \* intervalRef.current (0 is null)
    nStarts,        \* number of intervals created so far
    missedFramesRef, \* missedFramesRef.current
    inflight,       \* per interval: cycles awaiting Promise.all
    consecMisses,   \* history: consecutive completed cycles without a
                    \* qualifying person since analysis was started
    isAnalyzing,    \* useState(false) of EPIDetector
    runs,           \* the analyzeVideo calls made so far, each with its
                    \* position in the loop and the alerts.length it closed
                    \* over
    toast,          \* the toast shown last
    failure         \* history: the Promise.all of a batch frame that
                    \* rejected last in the current run

storeVars == <<impl, detections, alerts, videoFile, currentFrame,
               analysisProgress, now, call, nCalls, lastEvent>>
liveVars == <<mounted, camPending, srcObject, tracksLive, isCameraOn,
              isRealtime, timers, intervalRef, nStarts, missedFramesRef,
              inflight, consecMisses>>
batchVars == <<isAnalyzing, runs, toast, failure>>
vars == <<storeVars, liveVars, batchVars>>

----------------------------------------------------------------------------
(* Bounds of the model *)

MaxCalls == 2       \* processDetections calls in the Store specification
MaxNow == 1         \* last clock value
MaxStarts == 2      \* start-analysis clicks that create an interval
MaxCycles == 5      \* live cycles that run to completion
MaxInflight == 2    \* cycles awaiting their responses at one time
MaxRuns == 2        \* clicks that start analyzeVideo
MaxShown == 1       \* leading frames of the video in which the detectors
                    \* find anything

(* Program constants *)

MIN_CONFIDENCE == 50
IOU_NUM == 7
IOU_DEN == 10
LIVE_MIN_SCORE == 60
MAX_MISSED_FRAMES == 5
TOTAL_FRAMES == 100
FRAME_STEP == 10

Min(a, b) == IF a < b THEN a ELSE b
Max(a, b) == IF a > b THEN a ELSE b

Range(s) == {s[i] : i \in 1..Len(s)}

----------------------------------------------------------------------------
(* Detector responses (section 6.1 of the contract, as the code reads it) *)

NoScore == -1       \* the item carries no score field
NoBox == <<>>       \* the item carries no such box field
NoName == ""        \* the item carries no class_name / className

\* person.score || 0, epi.score || 0
ScoreOrZero(s) == IF s = NoScore THEN 0 ELSE s

\* A raw person: score, box (or NoBox) and the separate x, y, w, h fields.
RawPerson(score, box, x, y, w, h) ==
    [score |-> score, box |-> box, x |-> x, y |-> y, w |-> w, h |-> h]

\* A raw PPE item: class_name, score, box_model_input_coords, box.
RawEpi(name, score, coords, box) ==
    [class_name |-> name, score |-> score,
     box_model_input_coords |-> coords, box |-> box]

\* A response: which of the optional levels are there, and the list.
\*   "absent"  no `predictions` field
\*   "empty"   predictions: []
\*   "nolist"  predictions: [{}] without persons / ppe_detections
\*   "list"    predictions: [{persons | ppe_detections: items}]
Response(shape, items) == [shape |-> shape, items |-> items]

\* personData.predictions?.[0]?.persons, [] when the guard is falsy
PersonsOf(personData) ==
    IF personData.shape = "list" THEN personData.items ELSE <<>>

\* ppeData.predictions?.[0]?.ppe_detections, [] when the guard is falsy
PpeDetectionsOf(ppeData) ==
    IF ppeData.shape = "list" THEN ppeData.items ELSE <<>>

\* String.prototype.toLowerCase on the labels the detector is fed with
ToLowerCase(name) ==
    CASE name = "Mask" -> "mask"
      [] name = "GOGGLES" -> "goggles"
      [] name = "Hearing" -> "hearing"
      [] OTHER -> name

\* const epiMapping: Record<string, string>
epiMapping ==
    [hat |-> "hat", boots |-> "boots", hearing |-> "hearing",
     goggles |-> "glasses", mask |-> "mask", gloves |-> "gloves"]

\* Property names every object literal inherits from Object.prototype and
\* that are their own lower-case form
InheritedKeys == {"constructor", "__proto__"}

\* The value of a lookup that finds no property
Undefined == ""

\* epiMapping[className]: an own key gives its canonical class, an inherited
\* name gives the inherited member (not a string), anything else undefined
mappedType(className) ==
    IF className \in DOMAIN epiMapping THEN epiMapping[className]
    ELSE IF className \in InheritedKeys THEN "inherited " \o className
    ELSE Undefined

\* !mappedType is false
IsMapped(className) == mappedType(className) # Undefined

\* const requiredEPIs = new Set(['mask', 'glasses', 'hearing'])
requiredEPIs == <<"mask", "glasses", "hearing">>

----------------------------------------------------------------------------
(* processDetections *)

\* Mutant: the comparison excludes the minimum itself
PassesConfidence_exclusive(score) == ScoreOrZero(score) > MIN_CONFIDENCE

\* if ((x.score || 0) < MIN_CONFIDENCE) return;  -- TRUE when the item stays
PassesConfidence(score) == ~(ScoreOrZero(score) < MIN_CONFIDENCE)

\* x of a person: EPIDetector.tsx reads person.box?.[0] ?? 0, the copy in
\* VideoUpload.tsx reads person.box?.[0] ?? person.x ?? 0
PersonX(p, variant) ==
    IF p.box # NoBox THEN p.box[1]
    ELSE IF variant = "VideoUpload" THEN p.x ELSE 0

PersonY(p, variant) ==
    IF p.box # NoBox THEN p.box[2]
    ELSE IF variant = "VideoUpload" THEN p.y ELSE 0

\* person.box ? person.box[2] - person.box[0] : person.w ?? 0
PersonW(p) == IF p.box # NoBox THEN p.box[3] - p.box[1] ELSE p.w

PersonH(p) == IF p.box # NoBox THEN p.box[4] - p.box[2] ELSE p.h

\* The Detection pushed for the person at (1-based) position i
PersonDetection(p, i, frame, t, variant) ==
    [id |-> <<"person", frame, i - 1>>, type |-> "person",
     confidence |-> ScoreOrZero(p.score),
     x |-> PersonX(p, variant), y |-> PersonY(p, variant),
     w |-> PersonW(p), h |-> PersonH(p),
     frame |-> frame, timestamp |-> t, className |-> NoName]

\* epi.box_model_input_coords || epi.box || [0, 0, 0, 0]
EpiBox(e) ==
    IF e.box_model_input_coords # NoBox THEN e.box_model_input_coords
    ELSE IF e.box # NoBox THEN e.box
    ELSE <<0, 0, 0, 0>>

\* if (!mappedType || (epi.score || 0) < MIN_CONFIDENCE) return;
EpiKept(e) ==
    /\ IsMapped(ToLowerCase(e.class_name))
    /\ PassesConfidence(e.score)

EpiDetection(e, i, frame, t) ==
    LET box == EpiBox(e)
        className == ToLowerCase(e.class_name)
    IN [id |-> <<"epi", frame, i - 1>>, type |-> mappedType(className),
        confidence |-> ScoreOrZero(e.score),
        x |-> box[1], y |-> box[2],
        w |-> box[3] - box[1], h |-> box[4] - box[2],
        frame |-> frame, timestamp |-> t, className |-> className]

PersonKept(p) == PassesConfidence(p.score)

\* forEach with an early return: the positions of the persons that pass
PersonKeptIndices(persons) ==
    LET kept(i) == PersonKept(persons[i])
    IN SelectSeq([i \in 1..Len(persons) |-> i], kept)

\* forEach with an early return: the positions of the PPE items that pass
EpiKeptIndices(epis) ==
    LET kept(i) == EpiKept(epis[i])
    IN SelectSeq([i \in 1..Len(epis) |-> i], kept)

\* newDetections after the person loop
NewPersonDetections(personData, frame, t, variant) ==
    LET persons == PersonsOf(personData)
        idx == PersonKeptIndices(persons)
    IN [k \in 1..Len(idx) |->
          PersonDetection(persons[idx[k]], idx[k], frame, t, variant)]

\* what the PPE loop pushes to newDetections
NewEpiDetections(ppeData, frame, t) ==
    LET epis == PpeDetectionsOf(ppeData)
        idx == EpiKeptIndices(epis)
    IN [k \in 1..Len(idx) |-> EpiDetection(epis[idx[k]], idx[k], frame, t)]

\* detectedEPIClasses after the PPE loop
detectedEPIClasses(ppeData) ==
    {mappedType(ToLowerCase(e.class_name)) :
        e \in {x \in Range(PpeDetectionsOf(ppeData)) : EpiKept(x)}}

\* Array.from(requiredEPIs).filter(epi => !detectedEPIClasses.has(epi))
missingEPIs(ppeData) ==
    LET absent(epi) == epi \notin detectedEPIClasses(ppeData)
    IN SelectSeq(requiredEPIs, absent)

\* The label pushed for a missing class.  EPIDetector.tsx has one label per
\* required class; the copy in VideoUpload.tsx has
\*   epi === 'mask' ? 'Máscara' : 'Óculos de Proteção'
MissingLabel(epi, variant) ==
    IF variant = "VideoUpload"
    THEN (IF epi = "mask" THEN "Mascara" ELSE "Oculos de Protecao")
    ELSE (CASE epi = "mask" -> "Mascara"
            [] epi = "glasses" -> "Oculos de Protecao"
            [] epi = "hearing" -> "Protetor Auricular"
            [] OTHER -> epi)

\* Mutant: high from three missing classes on
Severity_late(n) == IF n > 2 THEN "high" ELSE "medium"

\* missingEPIs.length >= 2 ? 'high' : 'medium'
Severity(n) == IF n >= 2 THEN "high" ELSE "medium"

\* personsInFrame.forEach((person, personIndex) => ...)
frameAlerts(newDetections, ppeData, frame, t, variant) ==
    LET missing == missingEPIs(ppeData)
        isPerson(d) == d.type = "person"
        personsInFrame == SelectSeq(newDetections, isPerson)
    IN IF Len(missing) = 0 THEN <<>>
       ELSE [personIndex \in 1..Len(personsInFrame) |->
               [id |-> <<"alert", frame, personIndex - 1>>,
                personId |-> personsInFrame[personIndex].id,
                missingEPIs |-> [k \in 1..Len(missing) |->
                                   MissingLabel(missing[k], variant)],
                severity |-> Severity(Len(missing)),
                frame |-> frame, timestamp |-> t]]

\* Math.max(0, Math.min(f.x + f.w, p.x + p.w) - Math.max(f.x, p.x))
xOverlap(f, p) == Max(0, Min(f.x + f.w, p.x + p.w) - Max(f.x, p.x))

yOverlap(f, p) == Max(0, Min(f.y + f.h, p.y + p.h) - Max(f.y, p.y))

\* (xOverlap * yOverlap) / (p.w * p.h) > 0.7 in IEEE arithmetic: 0/0 is NaN
\* and compares false; a negative divisor flips the comparison
RatioExceeds(overlapArea, area) ==
    IF area = 0 THEN FALSE
    ELSE IF area > 0 THEN IOU_DEN * overlapArea > IOU_NUM * area
    ELSE IOU_DEN * overlapArea < IOU_NUM * area

\* Mutant: intersection over union
IsDuplicate_union(f, p) ==
    RatioExceeds(xOverlap(f, p) * yOverlap(f, p),
                 f.w * f.h + p.w * p.h - xOverlap(f, p) * yOverlap(f, p))

\* Mutant: the ratio is taken over the area of the kept box
IsDuplicate_byKept(f, p) ==
    RatioExceeds(xOverlap(f, p) * yOverlap(f, p), f.w * f.h)

\* the callback of filtered.some(...): p duplicates the kept f
IsDuplicate(f, p) == RatioExceeds(xOverlap(f, p) * yOverlap(f, p), p.w * p.h)

\* persons.forEach(p => { if (!overlap) filtered.push(p) })
RECURSIVE KeepPersons(_, _)
KeepPersons(persons, filtered) ==
    IF persons = <<>> THEN filtered
    ELSE LET p == Head(persons)
             overlap == \E i \in 1..Len(filtered) : IsDuplicate(filtered[i], p)
         IN KeepPersons(Tail(persons),
                        IF overlap THEN filtered ELSE Append(filtered, p))

\* Mutant: of two persons that overlap the later one is kept
filterDuplicatePersons_keepLast(dets) ==
    LET isPerson(d) == d.type = "person"
        isNonPerson(d) == d.type # "person"
        rev(q) == [i \in 1..Len(q) |-> q[Len(q) + 1 - i]]
    IN rev(KeepPersons(rev(SelectSeq(dets, isPerson)), <<>>))
       \o SelectSeq(dets, isNonPerson)

\* const filterDuplicatePersons = (detections: Detection[]) => ...
filterDuplicatePersons(dets) ==
    LET isPerson(d) == d.type = "person"
        isNonPerson(d) == d.type # "person"
    IN KeepPersons(SelectSeq(dets, isPerson), <<>>)
       \o SelectSeq(dets, isNonPerson)

\* newDetections of one call
NewDetections(personData, ppeData, frame, t, variant) ==
    NewPersonDetections(personData, frame, t, variant)
    \o NewEpiDetections(ppeData, frame, t)

\* The arguments of a call, as kept in `call`
CallOf(personData, ppeData, frame) ==
    [made |-> TRUE, personData |-> personData, ppeData |-> ppeData,
     frame |-> frame]

NoCall ==
    [made |-> FALSE, personData |-> Response("absent", <<>>),
     ppeData |-> Response("absent", <<>>), frame |-> 0]

\* Mutant: the new Detections replace the Store instead of being merged
processDetections_replace(personData, ppeData, frame) ==
    LET newDetections == NewDetections(personData, ppeData, frame, now, impl)
    IN /\ detections' = filterDuplicatePersons(newDetections)
       /\ alerts' = alerts \o frameAlerts(newDetections, ppeData, frame,
                                          now, impl)
       /\ call' = CallOf(personData, ppeData, frame)
       /\ nCalls' = nCalls + 1

\* Mutant: setAlerts(frameAlerts) in place of the functional update
processDetections_setAlerts(personData, ppeData, frame) ==
    LET newDetections == NewDetections(personData, ppeData, frame, now, impl)
    IN /\ detections' = filterDuplicatePersons(detections \o newDetections)
       /\ alerts' = frameAlerts(newDetections, ppeData, frame, now, impl)
       /\ call' = CallOf(personData, ppeData, frame)
       /\ nCalls' = nCalls + 1

\* processDetections(personData, ppeData, frame): both state updates
processDetections(personData, ppeData, frame) ==
    LET newDetections == NewDetections(personData, ppeData, frame, now, impl)
    IN /\ detections' = filterDuplicatePersons(detections \o newDetections)
       /\ alerts' = alerts \o frameAlerts(newDetections, ppeData, frame,
                                          now, impl)
       /\ call' = CallOf(personData, ppeData, frame)
       /\ nCalls' = nCalls + 1

----------------------------------------------------------------------------
(* Derived statistics *)

\* detections.filter(d => d.type === type).length
CountByType(dets, type) ==
    Cardinality({i \in 1..Len(dets) : dets[i].type = type})

\* alerts.filter(a => a.severity === severity).length
CountBySeverity(als, severity) ==
    Cardinality({i \in 1..Len(als) : als[i].severity = severity})

\* getStatusSummary / getAlertStats
getAlertStats(als) ==
    [highAlerts |-> CountBySeverity(als, "high"),
     mediumAlerts |-> CountBySeverity(als, "medium"),
     lowAlerts |-> CountBySeverity(als, "low"),
     totalAlerts |-> Len(als)]

\* Rational numbers <<numerator, denominator>> with denominator > 0
\* (n / d) * 100
Percent(n, d) == <<100 * n, d>>

\* Mutant: no upper clamp
MathMin100_none(q) == q

\* Math.min(100, q)
MathMin100(q) == IF q[1] > 100 * q[2] THEN <<100, 1>> ELSE q

\* Mutant: no lower clamp
MathMax0_none(q) == q

\* Math.max(0, q)
MathMax0(q) == IF q[1] < 0 THEN <<0, 1>> ELSE q

\* q.toFixed(1), as the number of tenths printed: the nearest tenth, the
\* larger one on a tie
ToFixed1(q) == (20 * q[1] + q[2]) \div (2 * q[2])

\* The classes ComplianceRatesCard.tsx and AlertDashboard.tsx list
CardClasses == {"mask", "gloves", "goggles", "coverall", "face_Shield"}

\* The classes the card appended to EPIDetector.tsx lists
CardClasses6 == {"hat", "mask", "gloves", "glasses", "boots", "hearing"}

\* getComplianceRates(): {} without persons, else one text per class
getComplianceRates(dets, classes) ==
    LET personDetections == CountByType(dets, "person")
    IN IF personDetections = 0 THEN <<>>
       ELSE [c \in classes |->
               ToFixed1(MathMin100(Percent(CountByType(dets, c),
                                           personDetections)))]

\* The "Taxa de Conformidade" figure of AlertDashboard
overallComplianceRate(dets, als) ==
    LET personDetections == CountByType(dets, "person")
        totalAlerts == getAlertStats(als).totalAlerts
    IN IF personDetections > 0
       THEN ToFixed1(MathMax0(MathMin100(
                Percent(personDetections - totalAlerts, personDetections))))
       ELSE 0

----------------------------------------------------------------------------
(* Detector responses the model feeds the handlers with *)

pA == RawPerson(90, <<10, 10, 50, 90>>, 0, 0, 0, 0)
pB == RawPerson(90, <<12, 11, 49, 88>>, 0, 0, 0, 0)  \* nearly pA
pS == RawPerson(80, <<20, 20, 30, 30>>, 0, 0, 0, 0)  \* small, inside pA
pE == RawPerson(50, <<43, 10, 53, 20>>, 0, 0, 0, 0)  \* 7/10 of it in pA
pL == RawPerson(49, <<60, 0, 70, 10>>, 0, 0, 0, 0)   \* below the minimum
pN == RawPerson(NoScore, <<60, 0, 70, 10>>, 0, 0, 0, 0)
pM == RawPerson(55, NoBox, 60, 60, 10, 10)           \* x, y, w, h fields

eMask == RawEpi("mask", 80, <<10, 10, 20, 20>>, NoBox)
eMaskU == RawEpi("Mask", 50, NoBox, <<10, 10, 20, 20>>)
eGoggles == RawEpi("GOGGLES", 90, <<10, 5, 20, 9>>, <<0, 0, 1, 1>>)
eHearing == RawEpi("hearing", 60, NoBox, NoBox)
eLow == RawEpi("mask", 40, <<10, 10, 20, 20>>, NoBox)
eUnmapped == RawEpi("helmet", 90, <<10, 0, 20, 5>>, NoBox)
eNoName == RawEpi(NoName, 90, <<10, 0, 20, 5>>, NoBox)
eHat == RawEpi("hat", 70, <<10, 0, 20, 5>>, NoBox)
eCtor == RawEpi("constructor", 90, <<10, 0, 20, 5>>, NoBox)

EmptyShapes == {"absent", "empty", "nolist"}

PersonLists == {<<pA>>, <<pB>>, <<pS>>, <<pE, pL, pM>>, <<pN, pA, pS>>}

PpeLists ==
    {<<eMask>>, <<eMaskU, eGoggles, eHearing>>,
     <<eLow, eUnmapped, eGoggles, eHearing>>, <<eHat, eNoName, eCtor>>}

\* The pairs of responses a processDetections call of the Store
\* specification is given: every person list with every PPE list, both
\* responses empty in each of the three ways, and one empty with the other
\* a list
StoreInputs ==
    {<<Response("list", ps), Response("list", es)>> :
        ps \in PersonLists, es \in PpeLists}
    \cup {<<Response(sh, <<>>), Response(sh, <<>>)>> : sh \in EmptyShapes}
    \cup {<<Response("absent", <<>>), Response("list", <<eMask>>)>>,
          <<Response("nolist", <<>>),
            Response("list", <<eMaskU, eGoggles, eHearing>>)>>,
          <<Response("list", <<pA>>), Response("empty", <<>>)>>,
          <<Response("list", <<pE, pL, pM>>), Response("nolist", <<>>)>>}

\* Frame indices of the batch loop that the Store specification uses
Frames == {0, 10}

----------------------------------------------------------------------------
(* The Store: processDetections calls, uploads, the clock *)

LiveIdle ==
    /\ mounted = FALSE
    /\ camPending = FALSE
    /\ srcObject = FALSE
    /\ tracksLive = FALSE
    /\ isCameraOn = FALSE
    /\ isRealtime = FALSE
    /\ timers = {}
    /\ intervalRef = 0
    /\ nStarts = 0
    /\ missedFramesRef = 0
    /\ inflight = <<>>
    /\ consecMisses = 0

NoToast == [title |-> "none", n |-> 0]

NoFailure == [service |-> "none", other |-> Response("absent", <<>>)]

\* No analyzeVideo call was made
BatchIdle ==
    /\ isAnalyzing = FALSE
    /\ runs = <<>>
    /\ toast = NoToast
    /\ failure = NoFailure

StoreEmpty ==
    /\ detections = <<>>
    /\ alerts = <<>>
    /\ videoFile = FALSE
    /\ currentFrame = 0
    /\ analysisProgress = 0
    /\ now = 0
    /\ call = NoCall
    /\ nCalls = 0
    /\ lastEvent = "init"

\* EPIDetector.tsx, the Realtime tab not opened
InitStore ==
    /\ impl = "EPIDetector"
    /\ StoreEmpty
    /\ LiveIdle
    /\ BatchIdle

\* The copy of the component at the end of VideoUpload.tsx
InitStoreUpload ==
    /\ impl = "VideoUpload"
    /\ StoreEmpty
    /\ LiveIdle
    /\ BatchIdle

\* A call of processDetections by the batch loop or by a live cycle
ProcessDetections(personData, ppeData, frame) ==
    /\ nCalls < MaxCalls
    /\ processDetections(personData, ppeData, frame)
    /\ lastEvent' = "processDetections"
    /\ UNCHANGED <<impl, videoFile, currentFrame, analysisProgress, now>>
    /\ UNCHANGED liveVars
    /\ UNCHANGED batchVars

\* Mutant: the upload keeps the Alerts and the progress of the old video
handleVideoUpload_keepAlerts ==
    /\ videoFile' = TRUE
    /\ detections' = <<>>
    /\ UNCHANGED <<alerts, analysisProgress>>
    /\ currentFrame' = 0
    /\ toast' = [title |-> "Video carregado", n |-> 0]

\* handleVideoUpload(file)
handleVideoUpload ==
    /\ videoFile' = TRUE
    /\ detections' = <<>>
    /\ alerts' = <<>>
    /\ currentFrame' = 0
    /\ analysisProgress' = 0
    /\ toast' = [title |-> "Video carregado", n |-> 0]

HandleVideoUpload ==
    /\ handleVideoUpload
    /\ lastEvent' = "handleVideoUpload"
    /\ call' = NoCall
    /\ UNCHANGED <<impl, now, nCalls>>
    /\ UNCHANGED liveVars
    /\ UNCHANGED <<isAnalyzing, runs, failure>>

NextStore ==
    \/ \E in \in StoreInputs, frame \in Frames :
          ProcessDetections(in[1], in[2], frame)
    \/ HandleVideoUpload

SpecStore == InitStore /\ [][NextStore]_vars

SpecStoreUpload == InitStoreUpload /\ [][NextStore]_vars

----------------------------------------------------------------------------
(* RealtimeDetector: one mounted instance, from mount to unmount *)

\* What the detectors answer to a camera frame
pQ == RawPerson(55, <<60, 60, 70, 70>>, 0, 0, 0, 0)  \* stored, not qualifying

LivePersonResponses ==
    {Response("absent", <<>>), Response("list", <<pA>>),
     Response("list", <<pQ>>)}

LivePpeResponses == {Response("empty", <<>>)}

\* useEffect(() => { startCamera(); ... }, []) has run: getUserMedia pending
InitLive ==
    /\ impl = "EPIDetector"
    /\ StoreEmpty
    /\ BatchIdle
    /\ mounted = TRUE
    /\ camPending = TRUE
    /\ srcObject = FALSE
    /\ tracksLive = FALSE
    /\ isCameraOn = FALSE
    /\ isRealtime = FALSE
    /\ timers = {}
    /\ intervalRef = 0
    /\ nStarts = 0
    /\ missedFramesRef = 0
    /\ inflight = <<>>
    /\ consecMisses = 0

\* Sum of a sequence of numbers
RECURSIVE Sum(_)
Sum(s) == IF s = <<>> THEN 0 ELSE Head(s) + Sum(Tail(s))

\* startCamera after `await getUserMedia` resolved with a stream
GetUserMediaResolves ==
    /\ camPending
    /\ camPending' = FALSE
    /\ tracksLive' = TRUE
    /\ srcObject' = (IF mounted THEN TRUE ELSE srcObject)
    /\ isCameraOn' = (IF mounted THEN TRUE ELSE isCameraOn)
    /\ lastEvent' = "cameraOn"
    /\ UNCHANGED <<impl, detections, alerts, videoFile, currentFrame,
                   analysisProgress, now, call, nCalls>>
    /\ UNCHANGED batchVars
    /\ UNCHANGED <<mounted, isRealtime, timers, intervalRef, nStarts,
                   missedFramesRef, inflight, consecMisses>>

\* startCamera: getUserMedia rejected, the catch block logs
GetUserMediaRejects ==
    /\ camPending
    /\ camPending' = FALSE
    /\ lastEvent' = "cameraError"
    /\ UNCHANGED <<impl, detections, alerts, videoFile, currentFrame,
                   analysisProgress, now, call, nCalls>>
    /\ UNCHANGED batchVars
    /\ UNCHANGED <<mounted, srcObject, tracksLive, isCameraOn, isRealtime,
                   timers, intervalRef, nStarts, missedFramesRef, inflight,
                   consecMisses>>

\* Mutant: the button is never disabled
ButtonDisabled_never(cameraOn) == FALSE

\* <button disabled={!isCameraOn}>
ButtonDisabled(cameraOn) == ~cameraOn

\* if (!videoRef.current || isRealtime) return;
StartRealtimeReturnsEarly(videoRefSet, realtime) == ~videoRefSet \/ realtime

\* startRealtime(): the state it changes
startRealtime ==
    IF StartRealtimeReturnsEarly(mounted, isRealtime)
    THEN UNCHANGED <<isRealtime, missedFramesRef, timers, intervalRef,
                     nStarts, inflight, consecMisses>>
    ELSE /\ isRealtime' = TRUE
         /\ missedFramesRef' = 0
         /\ nStarts' = nStarts + 1
         /\ timers' = timers \cup {nStarts + 1}
         /\ intervalRef' = nStarts + 1
         /\ inflight' = Append(inflight, 0)
         /\ consecMisses' = 0

\* Mutant: the interval is left running
ClearInterval_none(ts, ref) == ts

\* clearInterval(intervalRef.current)
ClearInterval(ts, ref) == ts \ {ref}

\* stopRealtime(): the state it changes
stopRealtime ==
    /\ isRealtime' = FALSE
    /\ timers' = ClearInterval(timers, intervalRef)
    /\ UNCHANGED intervalRef

\* A click on the button: onClick={isRealtime ? stopRealtime : startRealtime}
ClickButton ==
    /\ mounted
    /\ IF ButtonDisabled(isCameraOn)
       THEN /\ lastEvent' = "clickDisabled"
            /\ UNCHANGED <<isRealtime, missedFramesRef, timers, intervalRef,
                           nStarts, inflight, consecMisses>>
       ELSE IF isRealtime
       THEN /\ stopRealtime
            /\ lastEvent' = "stopRealtime"
            /\ UNCHANGED <<missedFramesRef, nStarts, inflight, consecMisses>>
       ELSE /\ nStarts < MaxStarts
            /\ startRealtime
            /\ lastEvent' = "startRealtime"
    /\ UNCHANGED <<impl, detections, alerts, videoFile, currentFrame,
                   analysisProgress, now, call, nCalls>>
    /\ UNCHANGED batchVars
    /\ UNCHANGED <<mounted, camPending, srcObject, tracksLive, isCameraOn>>

\* The interval callback up to `await Promise.all`: a frame is drawn and
\* both requests are sent
TimerFires(t) ==
    /\ t \in timers
    /\ mounted
    /\ nCalls + Sum(inflight) < MaxCycles
    /\ Sum(inflight) < MaxInflight
    /\ inflight' = [inflight EXCEPT ![t] = @ + 1]
    /\ lastEvent' = "sample"
    /\ UNCHANGED <<impl, detections, alerts, videoFile, currentFrame,
                   analysisProgress, now, call, nCalls>>
    /\ UNCHANGED batchVars
    /\ UNCHANGED <<mounted, camPending, srcObject, tracksLive, isCameraOn,
                   isRealtime, timers, intervalRef, nStarts, missedFramesRef,
                   consecMisses>>

\* Mutant: the reconciler's minimum is used for the live check
Qualifies_min(p) == ScoreOrZero(p.score) >= MIN_CONFIDENCE

\* (p.score || 0) >= 0.6
Qualifies(p) == ScoreOrZero(p.score) >= LIVE_MIN_SCORE

\* personDetections.predictions?.[0]?.persons?.filter(...) || []
filteredPersons(personData) == SelectSeq(PersonsOf(personData), Qualifies)

\* missedFramesRef.current after the if / else on filteredPersons.length
MissedAfter(missed, personData) ==
    IF Len(filteredPersons(personData)) = 0 THEN missed + 1 ELSE 0

\* if (missedFramesRef.current >= MAX_MISSED_FRAMES) stopRealtime();
StopsAt(missed) == missed >= MAX_MISSED_FRAMES

\* The interval callback after `await Promise.all` delivered both responses.
\* Date.now() is read here only: dt is the time that passes before the next
\* reading.
CycleCompletes(t, personData, ppeData, dt) ==
    /\ t \in 1..Len(inflight)
    /\ now + dt <= MaxNow
    /\ now' = now + dt
    /\ inflight[t] > 0
    /\ inflight' = [inflight EXCEPT ![t] = @ - 1]
    /\ missedFramesRef' = MissedAfter(missedFramesRef, personData)
    /\ processDetections(personData, ppeData, now)
    /\ IF StopsAt(missedFramesRef')
       THEN stopRealtime
       ELSE UNCHANGED <<isRealtime, timers, intervalRef>>
    /\ consecMisses' =
         (IF ~isRealtime THEN consecMisses
          ELSE IF \E p \in Range(PersonsOf(personData)) : p.score >= 60
               THEN 0 ELSE consecMisses + 1)
    /\ lastEvent' = "complete"
    /\ UNCHANGED <<impl, videoFile, currentFrame, analysisProgress>>
    /\ UNCHANGED batchVars
    /\ UNCHANGED <<mounted, camPending, srcObject, tracksLive, isCameraOn,
                   nStarts>>

\* Mutant: a rejected cycle ends the analysis, as the batch loop's catch does
CycleFails_stops(t) ==
    /\ t \in 1..Len(inflight)
    /\ inflight[t] > 0
    /\ inflight' = [inflight EXCEPT ![t] = @ - 1]
    /\ lastEvent' = "failed"
    /\ stopRealtime
    /\ UNCHANGED <<impl, detections, alerts, videoFile, currentFrame,
                   analysisProgress, now, call, nCalls>>
    /\ UNCHANGED batchVars
    /\ UNCHANGED <<mounted, camPending, srcObject, tracksLive, isCameraOn,
                   nStarts, missedFramesRef, consecMisses>>

\* One of the two requests failed: Promise.all rejects and the callback ends
CycleFails(t) ==
    /\ t \in 1..Len(inflight)
    /\ inflight[t] > 0
    /\ inflight' = [inflight EXCEPT ![t] = @ - 1]
    /\ lastEvent' = "failed"
    /\ UNCHANGED <<impl, detections, alerts, videoFile, currentFrame,
                   analysisProgress, now, call, nCalls>>
    /\ UNCHANGED batchVars
    /\ UNCHANGED <<mounted, camPending, srcObject, tracksLive, isCameraOn,
                   isRealtime, timers, intervalRef, nStarts, missedFramesRef,
                   consecMisses>>

\* The effect cleanup: stopCamera().  refAttached: videoRef.current still
\* points at the element when the cleanup runs (a cleanup that runs after
\* React detached the ref finds null).
Unmount(refAttached) ==
    /\ mounted
    /\ mounted' = FALSE
    /\ stopRealtime
    /\ IF refAttached /\ srcObject
       THEN tracksLive' = FALSE /\ srcObject' = FALSE
       ELSE UNCHANGED <<tracksLive, srcObject>>
    /\ isCameraOn' = FALSE
    /\ lastEvent' = "unmount"
    /\ UNCHANGED <<impl, detections, alerts, videoFile, currentFrame,
                   analysisProgress, now, call, nCalls>>
    /\ UNCHANGED batchVars
    /\ UNCHANGED <<camPending, nStarts, missedFramesRef, inflight,
                   consecMisses>>

NextLive ==
    \/ GetUserMediaResolves
    \/ GetUserMediaRejects
    \/ ClickButton
    \/ \E t \in timers : TimerFires(t)
    \/ \E t \in 1..MaxStarts, personData \in LivePersonResponses,
          ppeData \in LivePpeResponses, dt \in 0..1 :
          CycleCompletes(t, personData, ppeData, dt)
    \/ \E t \in 1..MaxStarts : CycleFails(t)
    \/ \E refAttached \in BOOLEAN : Unmount(refAttached)

SpecLive == InitLive /\ [][NextLive]_vars

----------------------------------------------------------------------------
(* analyzeVideo: the batch loop of EPIDetector over an uploaded video *)

\* useState<string>('dapi...'): no reachable control changes the token
apiToken == TRUE

\* What the detectors answer to a frame of the video
BatchShown == <<Response("list", <<pA>>), Response("list", <<eMask>>)>>
BatchNothing == <<Response("absent", <<>>), Response("absent", <<>>)>>

BatchInputs(frame) ==
    IF frame < FRAME_STEP * MaxShown THEN {BatchShown, BatchNothing}
    ELSE {BatchNothing}

\* Frames the player reports through onFrameChange
PlayerFrames == {0, 15}

InitBatch ==
    /\ impl = "EPIDetector"
    /\ StoreEmpty
    /\ LiveIdle
    /\ BatchIdle

\* A run that left analyzeVideo
RunDone == [pc |-> "done", frame |-> 0, alertsLen |-> 0]

IsActive(run) == run.pc # "done"

ActiveRuns(rs) == {r \in 1..Len(rs) : IsActive(rs[r])}

\* Mutant: the button stays enabled during a run
AnalyzeDisabled_never(analyzing) == ~apiToken

\* <Button onClick={analyzeVideo} disabled={isAnalyzing || !apiToken}>
AnalyzeDisabled(analyzing) == analyzing \/ ~apiToken

\* analyzeVideo() up to the first await
analyzeVideo ==
    IF ~videoFile
    THEN /\ toast' = [title |-> "Configuracao incompleta", n |-> 0]
         /\ UNCHANGED <<isAnalyzing, analysisProgress, runs, failure>>
    ELSE /\ isAnalyzing' = TRUE
         /\ analysisProgress' = 0
         /\ runs' = Append(runs, [pc |-> "extract", frame |-> 0,
                                  alertsLen |-> Len(alerts)])
         /\ failure' = NoFailure
         /\ UNCHANGED toast

\* A click on "Iniciar Analise", which is rendered when videoFile is set
ClickAnalyze ==
    /\ videoFile
    /\ ~AnalyzeDisabled(isAnalyzing)
    /\ Len(runs) < MaxRuns
    /\ analyzeVideo
    /\ lastEvent' = "analyzeVideo"
    /\ UNCHANGED <<impl, detections, alerts, videoFile, currentFrame, now,
                   call, nCalls>>
    /\ UNCHANGED liveVars

\* await extractFrameAsBase64(videoFile, frame) resolved
ExtractResolves(r) ==
    /\ r \in 1..Len(runs)
    /\ runs[r].pc = "extract"
    /\ runs' = [runs EXCEPT ![r].pc = "detect"]
    /\ lastEvent' = "extracted"
    /\ UNCHANGED <<impl, detections, alerts, videoFile, currentFrame,
                   analysisProgress, now, call, nCalls>>
    /\ UNCHANGED liveVars
    /\ UNCHANGED <<isAnalyzing, toast, failure>>

\* Mutant: the loop goes on with the next frame after an error
RunAfterError_nextFrame(run) ==
    IF run.frame + FRAME_STEP < TOTAL_FRAMES
    THEN [run EXCEPT !.pc = "extract", !.frame = @ + FRAME_STEP]
    ELSE RunDone

\* An error thrown in the try block leaves the for loop
RunAfterError(run) == RunDone

\* catch (error) { ... toast(...) } finally { setIsAnalyzing(false) }
catchFinally(r) ==
    /\ toast' = [title |-> "Erro na analise", n |-> 0]
    /\ isAnalyzing' = FALSE
    /\ runs' = [runs EXCEPT ![r] = RunAfterError(runs[r])]

\* await extractFrameAsBase64(videoFile, frame) rejected
ExtractFails(r) ==
    /\ r \in 1..Len(runs)
    /\ runs[r].pc = "extract"
    /\ catchFinally(r)
    /\ lastEvent' = "extractFails"
    /\ UNCHANGED <<impl, detections, alerts, videoFile, currentFrame,
                   analysisProgress, now, call, nCalls>>
    /\ UNCHANGED liveVars
    /\ UNCHANGED failure

\* setAnalysisProgress((frame / totalFrames) * 100)
ProgressOf(frame) == (frame * 100) \div TOTAL_FRAMES

\* The loop after processDetections: the next frame, or the toast and finally
RunAfterFrame(run) ==
    IF run.frame + FRAME_STEP < TOTAL_FRAMES
    THEN [run EXCEPT !.pc = "extract", !.frame = @ + FRAME_STEP]
    ELSE RunDone

\* await Promise.all([...]) resolved with both responses
DetectResolves(r, personData, ppeData) ==
    /\ r \in 1..Len(runs)
    /\ runs[r].pc = "detect"
    /\ processDetections(personData, ppeData, runs[r].frame)
    /\ analysisProgress' = ProgressOf(runs[r].frame)
    /\ runs' = [runs EXCEPT ![r] = RunAfterFrame(runs[r])]
    /\ IF IsActive(RunAfterFrame(runs[r]))
       THEN UNCHANGED <<toast, isAnalyzing>>
       ELSE /\ toast' = [title |-> "Analise concluida",
                         n |-> runs[r].alertsLen]
            /\ isAnalyzing' = FALSE
    /\ lastEvent' = "frameDone"
    /\ UNCHANGED <<impl, videoFile, currentFrame, now>>
    /\ UNCHANGED liveVars
    /\ UNCHANGED failure

\* What the service that did not fail had answered
FailureOf(service) ==
    [service |-> service,
     other |-> IF service = "person" THEN Response("list", <<eMask>>)
               ELSE Response("list", <<pA>>)]

\* await Promise.all([...]) rejected: the request to `service` failed
DetectFails(r, service) ==
    /\ r \in 1..Len(runs)
    /\ runs[r].pc = "detect"
    /\ catchFinally(r)
    /\ failure' = FailureOf(service)
    /\ lastEvent' = "detectFails"
    /\ UNCHANGED <<impl, detections, alerts, videoFile, currentFrame,
                   analysisProgress, now, call, nCalls>>
    /\ UNCHANGED liveVars

\* VideoPlayer's timeupdate listener: onFrameChange(frame)
OnFrameChange(frame) ==
    /\ videoFile
    /\ currentFrame' = frame
    /\ lastEvent' = "onFrameChange"
    /\ UNCHANGED <<impl, detections, alerts, videoFile, analysisProgress,
                   now, call, nCalls>>
    /\ UNCHANGED liveVars
    /\ UNCHANGED batchVars

NextBatch ==
    \/ HandleVideoUpload
    \/ ClickAnalyze
    \/ \E r \in 1..Len(runs) : ExtractResolves(r)
    \/ \E r \in 1..Len(runs) : ExtractFails(r)
    \/ \E r \in 1..Len(runs) : \E in \in BatchInputs(runs[r].frame) :
          DetectResolves(r, in[1], in[2])
    \/ \E r \in 1..Len(runs), service \in {"person", "ppe"} :
          DetectFails(r, service)
    \/ \E frame \in PlayerFrames : OnFrameChange(frame)

SpecBatch == InitBatch /\ [][NextBatch]_vars

\* The promise of extractFrameAsBase64 settles
SettleExtract == \E r \in 1..Len(runs) : ExtractResolves(r) \/ ExtractFails(r)

\* The promise of Promise.all settles
SettleDetect ==
    \E r \in 1..Len(runs) :
       \/ \E in \in BatchInputs(runs[r].frame) : DetectResolves(r, in[1], in[2])
       \/ \E service \in {"person", "ppe"} : DetectFails(r, service)

\* The batch loop when every awaited promise settles
SpecBatchFair ==
    SpecBatch /\ WF_vars(SettleExtract) /\ WF_vars(SettleDetect)

----------------------------------------------------------------------------
(* Vocabulary of the properties *)

IsPerson(d) == d.type = "person"
IsNonPerson(d) == d.type # "person"

PersonsIn(dets) == SelectSeq(dets, IsPerson)
NonPersonsIn(dets) == SelectSeq(dets, IsNonPerson)

IsPrefix(s, t) == Len(s) <= Len(t) /\ SubSeq(t, 1, Len(s)) = s

\* What t holds after the prefix s
Suffix(s, t) == SubSeq(t, Len(s) + 1, Len(t))

\* This step is a processDetections call
ProcessStep == nCalls' = nCalls + 1

\* Area of the intersection of the rectangles of a and b
OverlapArea(a, b) ==
    LET ox == Min(a.x + a.w, b.x + b.w) - Max(a.x, b.x)
        oy == Min(a.y + a.h, b.y + b.h) - Max(a.y, b.y)
    IN IF ox > 0 /\ oy > 0 THEN ox * oy ELSE 0

Area(b) == b.w * b.h

\* overlapArea(A, B) / area(B) > 0.7, for a box B of positive area
OverlapsMost(a, b) == 10 * OverlapArea(a, b) > 7 * Area(b)

\* The raw items of the last call
RawPersons == PersonsOf(call.personData)
RawEpis == PpeDetectionsOf(call.ppeData)

\* The person Detections the last call offered to the Store
Candidates == NewPersonDetections(call.personData, call.frame, now, impl)

\* Labels of the required classes in the alert text
ClassLabel(c) ==
    CASE c = "mask" -> "Mascara"
      [] c = "glasses" -> "Oculos de Protecao"
      [] c = "hearing" -> "Protetor Auricular"

\* Canonical classes seen in the last call: mapped label, score >= 0.5
ObservedClasses ==
    {epiMapping[ToLowerCase(e.class_name)] :
        e \in {x \in Range(RawEpis) :
                 ToLowerCase(x.class_name) \in DOMAIN epiMapping
                 /\ x.score >= 50}}

MissingClasses == {"mask", "glasses", "hearing"} \ ObservedClasses

----------------------------------------------------------------------------
(* C1 *)

\* C1: every Detection in the Store has confidence >= 0.5; a raw person or
\* mapped PPE item of the last call with a score below 0.5 or without a score
\* left no Detection, one with a score of 0.5 or more did (a PPE item always,
\* a person unless it duplicates a person of the Store).
C1_ConfidenceFilter ==
    /\ \A i \in 1..Len(detections) : detections[i].confidence >= 50
    /\ call.made =>
        /\ \A k \in 1..Len(RawEpis) :
             LET e == RawEpis[k]
             IN ToLowerCase(e.class_name) \in DOMAIN epiMapping =>
                  ((e.score >= 50) <=>
                     \E d \in Range(detections) :
                        /\ d.id = <<"epi", call.frame, k - 1>>
                        /\ d.confidence = e.score)
        /\ \A k \in 1..Len(RawPersons) :
             LET p == RawPersons[k]
                 stored == \E d \in Range(detections) :
                              /\ d.id = <<"person", call.frame, k - 1>>
                              /\ d.confidence = p.score
             IN /\ p.score < 50 => ~stored
                /\ p.score >= 50 =>
                     \/ stored
                     \/ \E d \in Range(PersonsIn(detections)) :
                          \E c \in Range(Candidates) :
                             /\ c.id = <<"person", call.frame, k - 1>>
                             /\ OverlapsMost(d, c)

\* A call offered a person with score 0.49 and one with exactly 0.5, and the
\* Store holds the second.
C1_Witness ==
    /\ call.made
    /\ \E p \in Range(RawPersons) : p.score = 49
    /\ \E d \in Range(detections) : d.type = "person" /\ d.confidence = 50
    /\ \E e \in Range(RawEpis) : e.score = 50
    /\ \E d \in Range(detections) : d.type = "mask" /\ d.confidence = 50

----------------------------------------------------------------------------
(* C2 *)

\* C2: a processDetections call keeps the persons of the Store as they are
\* and adds no person B for which the Store held a person A with
\* overlapArea(A, B) / area(B) > 0.7; a person at [10,10,50,90] followed by
\* one at [12,11,49,88] leaves one person.
C2_DuplicateDropped ==
    [][ProcessStep =>
        /\ IsPrefix(PersonsIn(detections), PersonsIn(detections'))
        /\ \A b \in Range(Suffix(PersonsIn(detections), PersonsIn(detections'))) :
             \A a \in Range(PersonsIn(detections)) : ~OverlapsMost(a, b)
        /\ (/\ Len(PersonsIn(detections)) = 1
            /\ PersonsIn(detections)[1].x = 10 /\ PersonsIn(detections)[1].y = 10
            /\ PersonsIn(detections)[1].w = 40 /\ PersonsIn(detections)[1].h = 80
            /\ call'.personData = Response("list", <<pB>>))
           => PersonsIn(detections') = PersonsIn(detections)]_vars

\* The person at [12,11,49,88] was offered in a later frame than the person
\* at [10,10,50,90], and the Store holds the first one only.
C2_Witness ==
    /\ call.made
    /\ call.personData = Response("list", <<pB>>)
    /\ call.frame = 10
    /\ Len(PersonsIn(detections)) = 1
    /\ PersonsIn(detections)[1].frame = 0
    /\ PersonsIn(detections)[1].x = 10 /\ PersonsIn(detections)[1].w = 40

----------------------------------------------------------------------------
(* C3 *)

\* Index of candidate k among the persons kept so far: the persons of the
\* Store before the call and the candidates 1..k-1 that the call added
AddedBy(before, after, c) ==
    \E d \in Range(Suffix(PersonsIn(before), PersonsIn(after))) : d = c

\* C3: a candidate B is added whenever overlapArea(A, B) / area(B) <= 0.7
\* for every person A kept before it (the persons of the Store and the
\* candidates of the same call added before B), whatever
\* overlapArea(A, B) / area(A) is.
C3_Asymmetric ==
    [][ProcessStep =>
        LET cands == NewPersonDetections(call'.personData, call'.frame,
                                         now, impl)
        IN \A k \in 1..Len(cands) :
             (/\ \A a \in Range(PersonsIn(detections)) :
                    ~OverlapsMost(a, cands[k])
              /\ \A j \in 1..(k - 1) :
                    AddedBy(detections, detections', cands[j])
                      => ~OverlapsMost(cands[j], cands[k]))
             => AddedBy(detections, detections', cands[k])]_vars

\* The Store holds a person A and, after it, a person B that covers more
\* than 0.7 of A while A covers at most 0.7 of B.
C3_Witness ==
    \E i, j \in 1..Len(detections) :
        /\ i < j
        /\ IsPerson(detections[i]) /\ IsPerson(detections[j])
        /\ Area(detections[i]) > 0 /\ Area(detections[j]) > 0
        /\ 10 * OverlapArea(detections[i], detections[j])
             > 7 * Area(detections[i])
        /\ ~OverlapsMost(detections[i], detections[j])

----------------------------------------------------------------------------
(* C4 *)

\* The Alerts the last call appended: one per candidate when a class is
\* missing
LastAlerts ==
    IF MissingClasses = {} THEN <<>>
    ELSE SubSeq(alerts, Len(alerts) - Len(Candidates) + 1, Len(alerts))

\* C4: after a call for a frame, each Alert of that frame lists exactly the
\* required classes not observed in the frame, one distinct entry per class;
\* a person with score 0.9 and a mask with score 0.8 give exactly one Alert,
\* listing glasses and hearing, of severity high.
C4_MissingSet ==
    call.made =>
        /\ Len(alerts) >= Len(LastAlerts)
        /\ \A i \in 1..Len(LastAlerts) :
             LET a == LastAlerts[i]
             IN /\ a.frame = call.frame
                /\ Len(a.missingEPIs) = Cardinality(MissingClasses)
                /\ Range(a.missingEPIs) = {ClassLabel(c) : c \in MissingClasses}
        /\ (call.personData = Response("list", <<pA>>)
            /\ call.ppeData = Response("list", <<eMask>>))
           => /\ Len(LastAlerts) = 1
              /\ Range(LastAlerts[1].missingEPIs)
                   = {ClassLabel("glasses"), ClassLabel("hearing")}
              /\ LastAlerts[1].severity = "high"

\* The scenario of C4 has been processed.
C4_Witness ==
    /\ call.made
    /\ call.personData = Response("list", <<pA>>)
    /\ call.ppeData = Response("list", <<eMask>>)
    /\ Len(alerts) = 1

----------------------------------------------------------------------------
(* C5 *)

SeverityRule(als) ==
    \A i \in 1..Len(als) :
       /\ Len(als[i].missingEPIs) >= 1
       /\ Len(als[i].missingEPIs) = 1 => als[i].severity = "medium"
       /\ Len(als[i].missingEPIs) >= 2 => als[i].severity = "high"
       /\ als[i].severity # "low"

\* C5: an Alert with one missing class is medium, with two or more high; a
\* call for a frame in which no required class is missing appends no Alert;
\* no Alert is low and the low count of the summary is 0.
C5_Severity ==
    [][/\ SeverityRule(alerts')
       /\ getAlertStats(alerts').lowAlerts = 0
       /\ getAlertStats(alerts').highAlerts
            + getAlertStats(alerts').mediumAlerts = Len(alerts')
       /\ ProcessStep =>
            LET epis == PpeDetectionsOf(call'.ppeData)
                seen == {epiMapping[ToLowerCase(e.class_name)] :
                           e \in {x \in Range(epis) :
                                    ToLowerCase(x.class_name)
                                        \in DOMAIN epiMapping
                                    /\ x.score >= 50}}
                missing == {"mask", "glasses", "hearing"} \ seen
                added == Suffix(alerts, alerts')
            IN /\ IsPrefix(alerts, alerts')
               /\ missing = {} => added = <<>>
               /\ \A i \in 1..Len(added) :
                    Len(added[i].missingEPIs) = Cardinality(missing)]_vars

\* The Store holds a medium Alert with one missing class and a high Alert
\* with three, and the last call, with persons and every required class
\* observed, appended none.
C5_Witness ==
    /\ \E i \in 1..Len(alerts) :
          alerts[i].severity = "medium" /\ Len(alerts[i].missingEPIs) = 1
    /\ \E i \in 1..Len(alerts) :
          alerts[i].severity = "high" /\ Len(alerts[i].missingEPIs) = 3

\* A call with a person and nothing missing appended no Alert.
C5_WitnessNone ==
    /\ call.made
    /\ Len(Candidates) > 0
    /\ MissingClasses = {}
    /\ alerts = <<>>

----------------------------------------------------------------------------
(* C6 *)

\* C6: a call whose person response has no predictions, an empty predictions
\* array or no persons field adds no person and no Alert; one whose PPE
\* response is of these shapes adds no PPE Detection; when both are, the
\* Store is left as it was.  The call completes in every case.
C6_EmptyResponses ==
    [][ProcessStep =>
        LET noPersons == call'.personData.shape \in EmptyShapes
            noEpis == call'.ppeData.shape \in EmptyShapes
        IN /\ noPersons => /\ PersonsIn(detections') = PersonsIn(detections)
                           /\ alerts' = alerts
           /\ noEpis => NonPersonsIn(detections') = NonPersonsIn(detections)
           /\ (noPersons /\ noEpis) => /\ detections' = detections
                                       /\ alerts' = alerts]_vars

\* A call with both responses empty or absent was made on a Store that holds
\* persons, PPE items and Alerts.
C6_Witness ==
    /\ call.made
    /\ call.personData.shape \in EmptyShapes
    /\ call.ppeData.shape \in EmptyShapes
    /\ PersonsIn(detections) # <<>>
    /\ NonPersonsIn(detections) # <<>>
    /\ alerts # <<>>

----------------------------------------------------------------------------
(* C7 *)

PersonCount == Cardinality({i \in 1..Len(detections) : IsPerson(detections[i])})
ClassCount(c) == Cardinality({i \in 1..Len(detections) : detections[i].type = c})
AlertCount == Len(alerts)

\* r tenths of a percent is n / d * 100 to one decimal place
IsRounded(r, n, d) == -d < 2 * d * r - 2000 * n /\ 2 * d * r - 2000 * n <= d

RateOK(rates, c) ==
    /\ c \in DOMAIN rates
    /\ rates[c] >= 0 /\ rates[c] <= 1000
    /\ IF PersonCount = 0 THEN rates[c] = 0
       ELSE IF ClassCount(c) >= PersonCount THEN rates[c] = 1000
       ELSE IsRounded(rates[c], ClassCount(c), PersonCount)

\* C7 as claimed: every class has a rate, min(100, count / persons * 100)
\* within [0,100], and the rate is 0 when the Store holds no person.
C7_RateAlwaysDefined ==
    /\ \A c \in CardClasses : RateOK(getComplianceRates(detections, CardClasses), c)
    /\ \A c \in CardClasses6 :
          RateOK(getComplianceRates(detections, CardClasses6), c)

\* C7, amended: with at least one person in the Store every class has a rate,
\* min(100, count / persons * 100) to one decimal place, within [0,100];
\* with no person there is no rate for any class (an empty result, no
\* division, no 0).
C7_RateOrNone ==
    /\ PersonCount > 0 =>
         /\ \A c \in CardClasses :
               RateOK(getComplianceRates(detections, CardClasses), c)
         /\ \A c \in CardClasses6 :
               RateOK(getComplianceRates(detections, CardClasses6), c)
    /\ PersonCount = 0 =>
         /\ DOMAIN getComplianceRates(detections, CardClasses) = {}
         /\ DOMAIN getComplianceRates(detections, CardClasses6) = {}

\* Three persons and one mask (33.3), and a Store of PPE items without any
\* person is reachable too (C7_WitnessNoPerson).
C7_Witness ==
    /\ PersonCount = 3
    /\ ClassCount("mask") = 1
    /\ getComplianceRates(detections, CardClasses)["mask"] = 333

C7_WitnessNoPerson ==
    /\ PersonCount = 0
    /\ ClassCount("mask") > 0

----------------------------------------------------------------------------
(* C8 *)

\* C8: the overall rate is max(0, min(100, (persons - alerts) / persons * 100))
\* (to the one decimal place shown) when the Store holds a person, 0
\* otherwise, and always within [0,100], also with more Alerts than persons.
C8_OverallRate ==
    LET r == overallComplianceRate(detections, alerts)
    IN /\ r >= 0 /\ r <= 1000
       /\ PersonCount = 0 => r = 0
       /\ (PersonCount > 0 /\ AlertCount >= PersonCount) => r = 0
       /\ (PersonCount > 0 /\ AlertCount < PersonCount) =>
            IsRounded(r, PersonCount - AlertCount, PersonCount)

\* More Alerts than persons: the person of a later frame was dropped as a
\* duplicate, its Alert was kept.
C8_Witness ==
    /\ PersonCount > 0
    /\ AlertCount > PersonCount
    /\ overallComplianceRate(detections, alerts) = 0

----------------------------------------------------------------------------
(* C9 *)

\* The session states of the controller
Idle == ~isCameraOn
CameraReady == isCameraOn /\ srcObject /\ tracksLive /\ ~isRealtime
Analyzing == isRealtime

\* This step is the completion of a live cycle
CompleteStep == lastEvent' = "complete" /\ ProcessStep

\* C9: the completion of the fifth consecutive cycle without a person of
\* score >= 0.6 takes an Analyzing session to CameraReady and leaves no
\* timer; a completed cycle with such a person sets the missed-frame counter
\* to 0, any other adds 1 to it, also when it holds a person with score in
\* [0.5, 0.6), which the Store takes as a Detection (unless it duplicates a
\* person already stored).
C9_AutoStop ==
    [][CompleteStep =>
        LET persons == PersonsOf(call'.personData)
            qualifying == \E p \in Range(persons) : p.score >= 60
            cands == NewPersonDetections(call'.personData, call'.frame,
                                         now, impl)
        IN /\ qualifying => missedFramesRef' = 0
           /\ ~qualifying => missedFramesRef' = missedFramesRef + 1
           /\ (Analyzing /\ consecMisses' >= 5) =>
                 /\ CameraReady'
                 /\ timers' = {}
           /\ (Analyzing /\ consecMisses' < 5) => Analyzing' /\ timers' = timers
           /\ \A k \in 1..Len(cands) :
                 (cands[k].confidence >= 50 /\ cands[k].confidence < 60) =>
                    \/ AddedBy(detections, detections', cands[k])
                    \/ \E a \in Range(PersonsIn(detections)) :
                          OverlapsMost(a, cands[k])]_vars

\* Five cycles without a qualifying person completed in a row, the session
\* is back in CameraReady without a timer, and the Store holds the person of
\* score 0.55 one of them reported.
C9_Witness ==
    /\ lastEvent = "complete"
    /\ consecMisses = 5
    /\ CameraReady
    /\ timers = {}
    /\ \E d \in Range(detections) : IsPerson(d) /\ d.confidence = 55

----------------------------------------------------------------------------
(* C10 *)

\* C10: the session is Analyzing only with the camera stream held and with
\* exactly one timer; a timer is created only by a click in CameraReady; a
\* click while Idle or while Analyzing creates no timer and leaves the
\* missed-frame counter as it is.
C10_StartOnlyWhenReady ==
    /\ [](Analyzing => (mounted /\ isCameraOn /\ srcObject /\ tracksLive
                        /\ Cardinality(timers) = 1))
    /\ [](Cardinality(timers) <= 1)
    /\ [][/\ ~(timers' \subseteq timers) =>
               (CameraReady /\ lastEvent' = "startRealtime")
          /\ (lastEvent' = "startRealtime" /\ nStarts' # nStarts) => CameraReady
          /\ (lastEvent' = "clickDisabled") =>
               (timers' = timers /\ missedFramesRef' = missedFramesRef
                /\ isRealtime' = isRealtime)
          /\ (lastEvent' = "stopRealtime" /\ Analyzing) =>
               (timers' = {} /\ missedFramesRef' = missedFramesRef)]_vars

\* The button was clicked while Idle (camera not acquired): nothing started.
C10_Witness ==
    /\ lastEvent = "clickDisabled"
    /\ Idle
    /\ mounted
    /\ timers = {}
    /\ ~isRealtime

----------------------------------------------------------------------------
(* C11 *)

\* C11: once the component is unmounted (teardown has run) no sampling timer
\* is active and no camera stream is held, on every path to the unmount,
\* also when getUserMedia is still pending at the unmount and grants the
\* stream afterwards.
C11_TeardownReleases == ~mounted => (timers = {} /\ ~tracksLive)

----------------------------------------------------------------------------
(* C12 *)

\* This step ends an analysis without unmounting the component
StopStep == Analyzing /\ ~Analyzing' /\ mounted'

\* This step is an interval callback that samples a frame
SampleStep == lastEvent' = "sample" /\ inflight' # inflight

\* C12: a stop of the analysis, by a click or by the fifth missed frame,
\* leaves no timer and puts the session in CameraReady with the camera
\* stream still held; while the session is not Analyzing no timer exists and
\* no frame is sampled, and the session becomes Analyzing again only through
\* a start click.
C12_StopAnalysis ==
    /\ [](~Analyzing => timers = {})
    /\ [][/\ StopStep =>
               /\ lastEvent' \in {"stopRealtime", "complete"}
               /\ CameraReady'
               /\ timers' = {}
          /\ SampleStep => (Analyzing /\ Analyzing')
          /\ (~Analyzing /\ Analyzing') => lastEvent' = "startRealtime"]_vars

\* The analysis was stopped by a click while a cycle was awaiting its
\* responses: the session is CameraReady and has no timer.
C12_Witness ==
    /\ lastEvent = "stopRealtime"
    /\ CameraReady
    /\ timers = {}
    /\ nStarts = 1
    /\ Sum(inflight) > 0

\* The analysis of the second session was stopped by the fifth missed frame.
C12_WitnessAuto ==
    /\ lastEvent = "complete"
    /\ CameraReady
    /\ timers = {}
    /\ nStarts = 2
    /\ missedFramesRef >= MAX_MISSED_FRAMES

----------------------------------------------------------------------------
(* C13 *)

\* Requests of the batch loop that await their responses
BatchInFlight == {r \in 1..Len(runs) : runs[r].pc = "detect"}

\* C13: in file analysis at most one run is active and at most one pair of
\* detector requests is in flight; a run starts only when none is active,
\* at frame 0; a run moves from the extraction of a frame to its requests,
\* and from there, by the processDetections call for that very frame, to the
\* extraction of the frame 10 further on (after frame 90 the run ends), or
\* it ends by an error; every processDetections call is for the frame whose
\* responses were awaited.
C13_Sequential ==
    /\ [](Cardinality(ActiveRuns(runs)) <= 1)
    /\ [](Cardinality(BatchInFlight) <= 1)
    /\ [](isAnalyzing <=> ActiveRuns(runs) # {})
    /\ [][/\ Len(runs') > Len(runs) =>
               /\ ActiveRuns(runs) = {}
               /\ Len(runs') = Len(runs) + 1
               /\ runs'[Len(runs')].pc = "extract"
               /\ runs'[Len(runs')].frame = 0
          /\ \A r \in 1..Len(runs) :
               runs'[r] # runs[r] =>
                  \/ /\ runs[r].pc = "extract"
                     /\ runs'[r].pc = "detect"
                     /\ runs'[r].frame = runs[r].frame
                     /\ ~ProcessStep
                  \/ /\ runs[r].pc = "detect"
                     /\ ProcessStep
                     /\ call'.frame = runs[r].frame
                     /\ IF runs[r].frame = 90
                        THEN ~IsActive(runs'[r])
                        ELSE /\ runs'[r].pc = "extract"
                             /\ runs'[r].frame = runs[r].frame + 10
                  \/ /\ lastEvent' \in {"extractFails", "detectFails"}
                     /\ ~IsActive(runs'[r])
                     /\ ~ProcessStep
          /\ ProcessStep =>
               \E r \in 1..Len(runs) :
                  /\ runs[r].pc = "detect"
                  /\ call'.frame = runs[r].frame
                  /\ runs'[r] # runs[r]]_vars

\* A run went through all ten frames: its last processDetections call was
\* for frame 90 and nothing is analysing any more.
C13_Witness ==
    /\ lastEvent = "frameDone"
    /\ call.made
    /\ call.frame = 90
    /\ nCalls >= 10
    /\ ~isAnalyzing
    /\ ActiveRuns(runs) = {}

----------------------------------------------------------------------------
(* C14 *)

\* The error report that names the detection service that failed
DetectionServiceError(service) ==
    [title |-> "DetectionServiceError " \o service, n |-> 0]

\* What processDetections makes of the response of the service that did
\* not fail, for the frame whose requests were awaited
DeliveredByOther(f, frame) ==
    IF f.service = "person"
    THEN NewEpiDetections(f.other, frame, now)
    ELSE NewPersonDetections(f.other, frame, now, impl)

\* C14: when the request to exactly one of the two detectors fails for a
\* frame, the error reported names that service, and the Detections of the
\* response of the other service are taken into the Store.
C14_IndependentFailures ==
    [][lastEvent' = "detectFails" /\ failure'.service \in {"person", "ppe"}
          /\ BatchInFlight # {} =>
          \A r \in BatchInFlight :
             LET delivered == DeliveredByOther(failure', runs[r].frame)
             IN /\ toast' = DetectionServiceError(failure'.service)
                /\ Len(detections') >= Len(detections) + Len(delivered)
                /\ \A k \in 1..Len(delivered) :
                      \E j \in 1..Len(detections') :
                         detections'[j] = delivered[k]]_vars

----------------------------------------------------------------------------
(* C15 *)

\* This step is an error thrown inside the batch loop
ErrorStep == lastEvent' \in {"extractFails", "detectFails"} /\ runs' # runs

\* C15: an error thrown while a frame of a batch run is processed (by the
\* frame extraction or by a detector request) ends the run: the step leaves
\* the Detections and the Alerts of the Store as they are, no run is active
\* after it and isAnalyzing is false; a run that has ended never moves
\* again, and processDetections is called for a batch frame only by an
\* active run.
C15_ErrorEndsRun ==
    [][/\ ErrorStep =>
            /\ detections' = detections
            /\ alerts' = alerts
            /\ nCalls' = nCalls
            /\ isAnalyzing' = FALSE
            /\ ActiveRuns(runs') = {}
       /\ \A r \in 1..Len(runs) : ~IsActive(runs[r]) => runs'[r] = runs[r]
       /\ ProcessStep => ActiveRuns(runs) # {}]_vars

\* A detector request failed after an earlier frame had put records in the
\* Store: the records are there, nothing is analysing.
C15_Witness ==
    /\ lastEvent = "detectFails"
    /\ Len(detections) > 0
    /\ Len(alerts) > 0
    /\ nCalls >= 1
    /\ ~isAnalyzing
    /\ ActiveRuns(runs) = {}

----------------------------------------------------------------------------
(* C16 *)

\* This step is handleVideoUpload
UploadStep == lastEvent' = "handleVideoUpload"

\* C16: right after handleVideoUpload the Detection sequence and the Alert
\* sequence are empty and currentFrame and analysisProgress are 0, whatever
\* the Store, the player position and the progress were before, also when a
\* batch run is under way.
C16_UploadResets ==
    [][UploadStep =>
          /\ detections' = <<>>
          /\ alerts' = <<>>
          /\ currentFrame' = 0
          /\ analysisProgress' = 0
          /\ videoFile']_vars

\* A video was uploaded while a run that had already processed two frames
\* was under way: the Store is empty and the progress is back at 0.
C16_Witness ==
    /\ lastEvent = "handleVideoUpload"
    /\ isAnalyzing
    /\ nCalls >= 2
    /\ \E r \in ActiveRuns(runs) : runs[r].frame >= 20
    /\ detections = <<>>
    /\ alerts = <<>>
    /\ currentFrame = 0
    /\ analysisProgress = 0

----------------------------------------------------------------------------
(* C17 *)

\* Number of times the record d occurs in the sequence q
Occurrences(q, d) == Cardinality({i \in 1..Len(q) : q[i] = d})

\* Every record of `before` is in `after`, with all its fields, at least as
\* many times
Retains(before, after) ==
    \A i \in 1..Len(before) :
       Occurrences(after, before[i]) >= Occurrences(before, before[i])

\* C17: a processDetections call keeps every Detection and every Alert that
\* the Store held before it, with identical fields; a step that loses a
\* record of the Store is an upload (reset).
C17_AppendOnly ==
    [][/\ ProcessStep =>
            /\ Retains(detections, detections')
            /\ Retains(alerts, alerts')
       /\ (~Retains(detections, detections') \/ ~Retains(alerts, alerts')) =>
            lastEvent' = "handleVideoUpload"]_vars

\* The second call offered a person that the filter dropped as a duplicate
\* of a person stored by the first call, which is still in the Store.
C17_Witness ==
    /\ lastEvent = "processDetections"
    /\ nCalls = 2
    /\ \E k \in 1..Len(Candidates) :
          /\ Candidates[k].confidence >= MIN_CONFIDENCE
          /\ \A j \in 1..Len(detections) : detections[j] # Candidates[k]
          /\ \E j \in 1..Len(detections) :
                /\ IsPerson(detections[j])
                /\ OverlapsMost(detections[j], Candidates[k])

----------------------------------------------------------------------------
(* C18 *)

\* C18: a processDetections call leaves the records the Store held in their
\* order and puts the records it adds after them, in the Detection sequence
\* whatever their classes and in the Alert sequence: the sequence before the
\* call is a prefix of the sequence after it.
C18_InsertionOrder ==
    [][ProcessStep =>
          /\ IsPrefix(detections, detections')
          /\ IsPrefix(alerts, alerts')]_vars

----------------------------------------------------------------------------
(* C19 *)

\* C19: the Store holds at most one Alert for a (person, frame) pair, and
\* every Alert it holds names at least one required class that was not
\* observed in its frame.
C19_OneAlertPerPersonFrame ==
    /\ \A i, j \in 1..Len(alerts) :
          (i < j) =>
             ~(/\ alerts[i].personId = alerts[j].personId
               /\ alerts[i].frame = alerts[j].frame)
    /\ \A i \in 1..Len(alerts) : Len(alerts[i].missingEPIs) >= 1

----------------------------------------------------------------------------
(* C20 *)

\* C20: the ids of the Detections in the Store are pairwise distinct.
C20_DistinctIds ==
    \A i, j \in 1..Len(detections) :
       (i < j) => detections[i].id # detections[j].id

----------------------------------------------------------------------------
(* C21 *)

\* A run that is analysing stops analysing
C21_Terminates == isAnalyzing ~> ~isAnalyzing

\* The completion toast comes with the processDetections call for frame 90,
\* the tenth call of a run that started at frame 0 (see C13)
C21_TenFrames ==
    [][(toast' # toast /\ toast'.title = "Analise concluida") =>
          /\ ProcessStep
          /\ call'.frame = 90
          /\ ~isAnalyzing']_vars

\* The progress value does not decrease while a run is under way
C21_ProgressMonotone ==
    [][(isAnalyzing /\ isAnalyzing') =>
          analysisProgress' >= analysisProgress]_vars

\* C21: provided every frame extraction and every pair of detector calls
\* settles, a batch run ends (isAnalyzing returns to false); it completes
\* only with frame 90, after the frames 0, 10, ..., 90; and the progress
\* value never decreases during the run.
C21_FiniteRun == C21_Terminates /\ C21_TenFrames /\ C21_ProgressMonotone

----------------------------------------------------------------------------
(* C22 *)

\* The record d is in `after` more often than in `before`
Gained(before, after, d) == Occurrences(after, d) > Occurrences(before, d)

\* The raw PPE item e is discarded by the rule of the claim
Discarded(e) ==
    \/ ToLowerCase(e.class_name) \notin DOMAIN epiMapping
    \/ e.score < 50

\* The canonical class of a label of the table
Canonical(name) == IF name = "goggles" THEN "glasses" ELSE name

\* What C22 says of the raw PPE items: of all of them, or (ownOnly) of those
\* whose label is not a name that the table object inherits
PpeRule(ownOnly) ==
    ProcessStep =>
       /\ \A k \in 1..Len(RawEpis') :
            LET e == RawEpis'[k]
                made == {j \in 1..Len(detections') :
                           /\ detections'[j].id = <<"epi", call'.frame, k - 1>>
                           /\ Gained(detections, detections', detections'[j])}
            IN (ownOnly => ToLowerCase(e.class_name) \notin InheritedKeys) =>
                 /\ Discarded(e) => made = {}
                 /\ ~Discarded(e) =>
                      \E j \in made :
                         detections'[j].type =
                            Canonical(ToLowerCase(e.class_name))
       /\ \A i \in 1..Len(Suffix(alerts, alerts')) :
            Range(Suffix(alerts, alerts')[i].missingEPIs) =
               {ClassLabel(c) :
                  c \in {"mask", "glasses", "hearing"} \
                        {Canonical(ToLowerCase(e.class_name)) :
                           e \in {x \in Range(RawEpis') : ~Discarded(x)}}}

\* C22: a raw PPE item whose lower-cased class_name is not a key of the
\* mapping table, or whose score is below 0.5, gives no Detection and is not
\* counted as observed: the Alerts of the call list every required class
\* that no other item of the frame supplies; any other item gives a
\* Detection of its canonical class, `Mask` like `mask` and `goggles` as
\* `glasses`.
C22_UnmappedDiscarded ==
    [][PpeRule(FALSE)]_vars

\* The same for the raw items whose label is not a name that the table
\* object inherits
C22_OwnLabels ==
    [][PpeRule(TRUE)]_vars

----------------------------------------------------------------------------
(* C23 *)

\* The canonical rectangle of a raw person
CanonicalRect(p) ==
    IF p.box # NoBox
    THEN <<p.box[1], p.box[2], p.box[3] - p.box[1], p.box[4] - p.box[2]>>
    ELSE <<p.x, p.y, p.w, p.h>>

\* C23: the person Detection made of a raw person of the last call has the
\* canonical rectangle: (x1, y1, x2 - x1, y2 - y1) for a box [x1,y1,x2,y2],
\* and exactly (x, y, w, h) for a person given by separate fields without a
\* box.
C23_BoxNormalised ==
    call.made =>
       \A i \in 1..Len(RawPersons) :
          \A k \in 1..Len(Candidates) :
             Candidates[k].id = <<"person", call.frame, i - 1>> =>
                <<Candidates[k].x, Candidates[k].y,
                  Candidates[k].w, Candidates[k].h>>
                   = CanonicalRect(RawPersons[i])

----------------------------------------------------------------------------
(* C24 *)

\* C24: the completion of a live cycle while the session is not Analyzing
\* (its responses arrive after the stop) leaves the Detections, the Alerts
\* and the missed-frame counter as they are.
C24_LateCycleDiscarded ==
    [][(CompleteStep /\ ~Analyzing) =>
          /\ detections' = detections
          /\ alerts' = alerts
          /\ missedFramesRef' = missedFramesRef]_vars

----------------------------------------------------------------------------
(* C25 *)

\* Number of persons with score >= 0.5 in the response of the call just made
OfferedPersons ==
    Cardinality({i \in 1..Len(RawPersons) : RawPersons[i].score >= 50})

\* The person Detections a live cycle offers: its frame index and its
\* timestamp are both the clock reading at the completion
LiveCandidates ==
    NewPersonDetections(call'.personData, call'.frame, call'.frame, impl)

\* C25: the completion of a live cycle, whatever other cycles are in flight
\* or completed before it, keeps every Detection and every Alert of the
\* Store, appends one Alert per person of its frame when a required class
\* is missing, and adds each of its persons that does not overlap a stored
\* person: the Store is the one before the completion with this cycle's
\* append applied to it.
C25_InterleavedAppends ==
    [][CompleteStep =>
          /\ Retains(detections, detections')
          /\ IsPrefix(alerts, alerts')
          /\ Len(alerts') = Len(alerts) +
                (IF MissingClasses' = {} THEN 0 ELSE OfferedPersons')
          /\ \A k \in 1..Len(LiveCandidates) :
                \/ \E j \in 1..Len(detections') :
                      detections'[j] = LiveCandidates[k]
                \/ \E a \in Range(PersonsIn(detections)) :
                      OverlapsMost(a, LiveCandidates[k])]_vars

\* A cycle completed while another one, sampled before that completion, is
\* still awaiting its responses, and the Store holds the persons and the
\* Alerts of two completed cycles.
C25_Witness ==
    /\ lastEvent = "complete"
    /\ Sum(inflight) >= 1
    /\ nCalls >= 2
    /\ Len(alerts) >= 2
    /\ Cardinality({j \in 1..Len(detections) : IsPerson(detections[j])}) >= 2

----------------------------------------------------------------------------
(* C26 *)

\* This step is the rejection of a live cycle's Promise.all
FailStep == lastEvent' = "failed" /\ inflight' # inflight

\* The bounds of the model leave room for one more sampled cycle
RoomForCycle ==
    /\ nCalls + Sum(inflight) < MaxCycles
    /\ Sum(inflight) < MaxInflight

\* C26: a live cycle in which a detector request is rejected appends nothing
\* to the Store, leaves the missed-frame counter unchanged and leaves the
\* session and its timer as they were; right after it an Analyzing session
\* still has its timer registered and the timer's next tick can sample a
\* fresh frame.
C26_FailedCycleSkipped ==
    /\ [][FailStep =>
            /\ detections' = detections
            /\ alerts' = alerts
            /\ missedFramesRef' = missedFramesRef
            /\ isRealtime' = isRealtime
            /\ timers' = timers
            /\ intervalRef' = intervalRef]_vars
    /\ []((lastEvent = "failed" /\ Analyzing /\ mounted) =>
            /\ intervalRef \in timers
            /\ RoomForCycle => ENABLED TimerFires(intervalRef))

\* A cycle failed in an Analyzing session whose counter had already counted
\* a missed frame and whose Store already held an Alert; the timer is
\* registered and a further cycle can be sampled.
C26_Witness ==
    /\ lastEvent = "failed"
    /\ Analyzing
    /\ mounted
    /\ missedFramesRef >= 1
    /\ Len(alerts) >= 1
    /\ intervalRef \in timers
    /\ RoomForCycle

----------------------------------------------------------------------------
(* C27 *)

\* C27: every Alert of the Store names, in personId, the id of a person
\* Detection that is in the Store.
C27_AlertRefersToStoredPerson ==
    \A i \in 1..Len(alerts) :
        \E j \in 1..Len(detections) :
            /\ IsPerson(detections[j])
            /\ detections[j].id = alerts[i].personId

----------------------------------------------------------------------------
(* C28 *)

\* This step completes a cycle that was sampled by the timer of an earlier
\* session, not by the timer of the current one
StaleCompleteStep ==
    /\ CompleteStep
    /\ \E t \in 1..Len(inflight) :
          t # intervalRef /\ inflight'[t] < inflight[t]

\* C28: while a session is Analyzing, the completion of a cycle sampled in
\* an earlier session leaves the missed-frame counter as it was and leaves
\* the session Analyzing with its timer: only the cycles the session
\* sampled itself count towards the automatic stop.
C28_SessionsIsolated ==
    [][(StaleCompleteStep /\ Analyzing) =>
          /\ missedFramesRef' = missedFramesRef
          /\ Analyzing'
          /\ timers' = timers]_vars

----------------------------------------------------------------------------
(* C29 *)

\* The last thing that happened is an upload: no analysis of the new video
\* has been started yet, so a run that awaits its responses was in flight
\* when the upload reset the Store
JustUploaded == lastEvent = "handleVideoUpload"

\* C29: a processDetections call that comes right after an upload, before
\* any analysis of the new video was started, belongs to an analysis of the
\* previous video and appends nothing: the Store stays as the upload left
\* it, empty.
C29_StaleRunAppendsNothing ==
    [][(JustUploaded /\ ProcessStep) =>
          /\ detections' = <<>>
          /\ alerts' = <<>>]_vars

----------------------------------------------------------------------------
(* C30 *)

\* This step shows the completion notification of a batch run
CompletionStep ==
    /\ lastEvent' = "frameDone"
    /\ toast'.title = "Analise concluida"
    /\ ActiveRuns(runs') # ActiveRuns(runs)

\* C30: the completion notification of a batch run announces as many alerts
\* as the Store holds when it is shown (and is of the destructive variant
\* exactly when that number is positive).
C30_ToastCountsAlerts ==
    [][CompletionStep => toast'.n = Len(alerts')]_vars

====
